---- MODULE Spec2Model ----
(***************************************************************************)
(* HRMS Lite: attendance state machine behind the ProfessionalAttendance   *)
(* and AttendanceManagement views.                                         *)
(*                                                                         *)
(* The React components (ProfessionalAttendance.jsx, AttendanceManagement  *)
(* .jsx, api.js) are modelled from their source.  The service they call    *)
(* (backend/main.py: /api/attendance/checkin, /checkout, /today and        *)
(* POST /api/attendance) is not part of the source tree; it is modelled    *)
(* from sections 3, 4.1, 4.2, 5 and 6 of the specification.                *)
(***************************************************************************)
EXTENDS Integers, Sequences, FiniteSets, Bags, TLC

(***************************************************************************)
(* Bounds of the model.                                                    *)
(***************************************************************************)
\* number of clock advances explored
MaxTicks == 2
\* minutes the clock advances per step
TickMinutes == 600
\* number of requests the views issue in one behaviour
MaxRequests == 3
\* number of those that are mark-attendance submissions
MaxSubmits == 1

(***************************************************************************)
(* Program constants.                                                      *)
(***************************************************************************)
\* "automatic checkout after 10 hours"
AutoCheckoutHours == 10
\* the ceiling of an open check-in, in minutes
Ceiling == AutoCheckoutHours * 60
\* lateness threshold 09:30, minutes after midnight
LateThreshold == 570
MinutesPerDay == 24 * 60
\* the first instant of a behaviour: 08:00 of day 0
DayStart == 8 * 60
\* an absent instant ('' in the form, null in a record)
Null == 0 - 1

Employees == {"E1", "E2"}
LastInstant == DayStart + MaxTicks * TickMinutes
DateOf(t) == t \div MinutesPerDay
TimeOfDay(t) == t % MinutesPerDay
Dates == 0 .. DateOf(LastInstant)
\* the statuses the mark-attendance form offers
FormStatuses == {"Present", "Late", "Absent"}
\* the statuses the service accepts
StatusEnum == {"Present", "Late", "Absent", "HalfDay", "WorkFromHome"}
\* times of day typed into the form's time inputs: 09:00 and 17:00
FormTimes == {Null, 9 * 60, 17 * 60}

(***************************************************************************)
(* TimeAccounting (specification 4.2).                                     *)
(***************************************************************************)
elapsedMinutes(start, end) == end - start

classifyLateness(check_in_time, threshold) ==
  IF TimeOfDay(check_in_time) > threshold THEN "Late" ELSE "Present"

(***************************************************************************)
(* AttendanceRecord and its store (specification 3 and 6).                 *)
(***************************************************************************)
Key(r) == <<r.employee_id, r.date>>

storeGet(s, e, d) == {r \in s : r.employee_id = e /\ r.date = d}

\* storePut that adds the record beside the one stored under its key
storeInsert(s, rec) == s \cup {rec}

\* upsert keyed by (employee_id, date)
storePut(s, rec) == {r \in s : Key(r) # Key(rec)} \cup {rec}

HasOpenCheckIn(r) == r.check_in_time # Null /\ r.check_out_time = Null

(***************************************************************************)
(* AttendanceStateMachine (specification 4.1).                             *)
(***************************************************************************)
\* applyAutoCheckoutIfDue that stamps the instant of the evaluation
applyAutoCheckoutAtNow(r, now) ==
  IF HasOpenCheckIn(r) /\ elapsedMinutes(r.check_in_time, now) >= Ceiling
  THEN [r EXCEPT !.check_out_time = now,
                 !.is_auto_checkout = TRUE,
                 !.working_minutes = elapsedMinutes(r.check_in_time, now),
                 !.checked_out_by = "auto"]
  ELSE r

\* applyAutoCheckoutIfDue that does not look at check_out_time
applyAutoCheckoutAgain(r, now) ==
  IF r.check_in_time # Null /\ elapsedMinutes(r.check_in_time, now) >= Ceiling
  THEN [r EXCEPT !.check_out_time = r.check_in_time + Ceiling,
                 !.is_auto_checkout = TRUE,
                 !.working_minutes = Ceiling,
                 !.checked_out_by = "auto"]
  ELSE r

applyAutoCheckoutIfDue(r, now) ==
  IF HasOpenCheckIn(r) /\ elapsedMinutes(r.check_in_time, now) >= Ceiling
  THEN [r EXCEPT !.check_out_time = r.check_in_time + Ceiling,
                 !.is_auto_checkout = TRUE,
                 !.working_minutes =
                     elapsedMinutes(r.check_in_time, r.check_in_time + Ceiling),
                 !.checked_out_by = "auto"]
  ELSE r

\* the lazily evaluated transition, written back for the records of one key
evaluate(s, e, d, now) ==
  {IF r.employee_id = e /\ r.date = d THEN applyAutoCheckoutIfDue(r, now) ELSE r
     : r \in s}

\* the record a successful check-in stores; checked_out_by is a history field
\* naming the path that set check_out_time: none, user, auto or manual
CheckedInRecord(e, at) ==
  [employee_id |-> e, date |-> DateOf(at),
   status |-> classifyLateness(at, LateThreshold),
   check_in_time |-> at, check_out_time |-> Null,
   is_auto_checkout |-> FALSE, working_minutes |-> 0,
   checked_out_by |-> "none"]

\* checkIn that does not look for an open check-in
checkInOverwriting(s, e, at) ==
  <<"ok", storePut(evaluate(s, e, DateOf(at), at), CheckedInRecord(e, at))>>

\* checkIn(employee_id, at): <<result, store>>
checkIn(s, e, at) ==
  LET s1 == evaluate(s, e, DateOf(at), at)
      cur == storeGet(s1, e, DateOf(at))
  IN IF \E r \in cur : HasOpenCheckIn(r)
     THEN <<"AlreadyCheckedIn", s1>>
     ELSE <<"ok", storePut(s1, CheckedInRecord(e, at))>>

\* checkOut that does not compare the instant with the check-in
checkOutUnordered(s, e, at) ==
  LET s1 == evaluate(s, e, DateOf(at), at)
      cur == storeGet(s1, e, DateOf(at))
  IN IF ~ \E r \in cur : HasOpenCheckIn(r)
     THEN <<"NotCheckedIn", s1>>
     ELSE LET r == CHOOSE x \in cur : HasOpenCheckIn(x)
          IN <<"ok", storePut(s1, [r EXCEPT
                     !.check_out_time = at,
                     !.is_auto_checkout = FALSE,
                     !.working_minutes = elapsedMinutes(r.check_in_time, at),
                     !.checked_out_by = "user"])>>

\* checkOut(employee_id, at, notes): <<result, store>>
checkOut(s, e, at) ==
  LET s1 == evaluate(s, e, DateOf(at), at)
      cur == storeGet(s1, e, DateOf(at))
  IN IF ~ \E r \in cur : HasOpenCheckIn(r)
     THEN <<"NotCheckedIn", s1>>
     ELSE LET r == CHOOSE x \in cur : HasOpenCheckIn(x)
          IN IF at < r.check_in_time
             THEN <<"InvalidTimeOrder", s1>>
             ELSE <<"ok",
                    storePut(s1, [r EXCEPT
                       !.check_out_time = at,
                       !.is_auto_checkout = FALSE,
                       !.working_minutes = elapsedMinutes(r.check_in_time, at),
                       !.checked_out_by = "user"])>>

\* an instant of the form: the date's midnight plus the typed time of day
FormInstant(date, t) == IF t = Null THEN Null ELSE date * MinutesPerDay + t

\* validRecord that does not compare the two times
validRecordUnordered(p) ==
  /\ p.status \in StatusEnum
  /\ p.date \in Dates
  /\ p.check_out_time # Null => p.check_in_time # Null
  /\ p.status = "Absent" => p.check_in_time = Null /\ p.check_out_time = Null

validRecord(p) ==
  /\ p.status \in StatusEnum
  /\ p.date \in Dates
  /\ (p.check_in_time # Null /\ p.check_out_time # Null
        => p.check_out_time >= p.check_in_time)
  /\ (p.check_out_time # Null => p.check_in_time # Null)
  /\ (p.status = "Absent" => p.check_in_time = Null /\ p.check_out_time = Null)

MarkedRecord(p) ==
  [employee_id |-> p.employee_id, date |-> p.date, status |-> p.status,
   check_in_time |-> FormInstant(p.date, p.check_in_time),
   check_out_time |-> FormInstant(p.date, p.check_out_time),
   is_auto_checkout |-> FALSE,
   working_minutes |->
      IF p.check_in_time # Null /\ p.check_out_time # Null
      THEN elapsedMinutes(p.check_in_time, p.check_out_time) ELSE 0,
   checked_out_by |-> IF p.check_out_time # Null THEN "manual" ELSE "none"]

\* markAttendance(record): <<result, store>>
markAttendance(s, p) ==
  IF validRecord(p) THEN <<"ok", storePut(s, MarkedRecord(p))>>
  ELSE <<"ValidationError", s>>

\* one row of GET /api/attendance/today
TodayRow(r, now) ==
  [employee_id |-> r.employee_id,
   check_in_time |-> r.check_in_time,
   check_out_time |-> r.check_out_time,
   is_auto_checkout |-> r.is_auto_checkout,
   is_checked_in |-> HasOpenCheckIn(r),
   can_checkout |-> HasOpenCheckIn(r),
   time_until_auto_checkout |->
      IF HasOpenCheckIn(r) THEN r.check_in_time + Ceiling - now ELSE 0]

\* the status query evaluates every record of the day before rendering it
sweepToday(s, now) ==
  {IF r.date = DateOf(now) THEN applyAutoCheckoutIfDue(r, now) ELSE r : r \in s}

todayRows(s, now) == {TodayRow(r, now) : r \in {x \in s : x.date = DateOf(now)}}

(***************************************************************************)
(* ProfessionalAttendance view.                                            *)
(***************************************************************************)
\* getStatusBadge that does not look at is_auto_checkout
getStatusBadgeUnflagged(employee) ==
  IF employee.is_checked_in
  THEN IF employee.time_until_auto_checkout <= 60
       THEN "Auto-checkout in" ELSE "Checked In"
  ELSE IF employee.check_out_time # Null
       THEN "Checked Out"
       ELSE "Not Checked In"

\* the status badge of a row
getStatusBadge(employee) ==
  IF employee.is_checked_in
  THEN IF employee.time_until_auto_checkout <= 60
       THEN "Auto-checkout in" ELSE "Checked In"
  ELSE IF employee.check_out_time # Null
       THEN IF employee.is_auto_checkout THEN "Auto Checked Out"
            ELSE "Checked Out"
       ELSE "Not Checked In"

\* ResponseOk that does not look at the response's status
ResponseUnchecked(result) == TRUE

\* whether a response is a success (response.ok)
ResponseOk(result) == result = "ok"

VARIABLES
  now,              \* ClockSource: the current instant, minutes since day 0 00:00
  store,            \* AttendanceRecord store: a set of records
  reqs,             \* requests in flight: sent, or served with the response pending
  issued,           \* number of requests issued so far
  submitted,        \* number of mark-attendance submissions among them
  notification,     \* the last notification passed to onNotification
  todayAttendance,  \* ProfessionalAttendance: rows of the last fetch
  employees,        \* ProfessionalAttendance: employees of the last fetch
  selectedEmployee, \* ProfessionalAttendance: employee held by the checkout modal
  showCheckoutModal,\* ProfessionalAttendance: whether the modal is open
  formData          \* AttendanceManagement: the mark-attendance form

service == <<now, store>>
budget == <<issued, submitted>>
view == <<todayAttendance, employees>>
modal == <<selectedEmployee, showCheckoutModal>>

attendanceVars ==
  <<service, reqs, budget, notification, view, modal, formData>>

VARIABLES
  mounted,           \* Reports: the view is mounted
  reportType,        \* Reports: the selected report type ('' when none)
  filters,           \* Reports: dateFrom, dateTo, department, employeeId
  reportData,        \* Reports: the report shown (0 when null)
  loading,           \* Reports: a manual generation is in flight
  error,             \* Reports: the error shown
  enabled,           \* Reports: refreshSettings.enabled
  retryCount,        \* Reports: failed scheduled refreshes counted
  isRefreshing,      \* Reports: a scheduled refresh is in flight
  refreshInterval,   \* Reports: id of the refresh timer held in state (0: null)
  countdownInterval, \* Reports: id of the countdown timer held in state
  refreshCountdown,  \* Reports: seconds shown until the next refresh
  interval,          \* Reports: refreshSettings.interval, in seconds
  cleanup,           \* the timer ids seen by the cleanup of the last effect
  refreshTimers,     \* the browser's active refresh timers, with their closures
  countdownTimers,   \* the browser's active countdown timers
  calls,             \* report-generation calls in flight
  issuedCalls,       \* number of report-generation calls issued so far
  reportNotice,      \* Reports: the last notification passed to onNotification
  noticeCount,       \* number of notifications passed so far, modulo 4
  failures           \* consecutive failed scheduled refreshes (history)

reportState ==
  <<reportType, filters, reportData, loading, error, enabled, retryCount,
    isRefreshing, interval>>
timerState ==
  <<refreshInterval, countdownInterval, refreshCountdown, cleanup,
    refreshTimers, countdownTimers>>
notices == <<reportNotice, noticeCount>>
reportVars ==
  <<mounted, reportState, timerState, calls, issuedCalls, notices, failures>>

VARIABLES
  todayRecords,      \* AttendanceManagement: today's records, counted by status
  attendance_rate    \* the attendance rate computed from them, once computed

rateVars == <<todayRecords, attendance_rate>>

VARIABLES
  slice,             \* ReportAggregator: the slice of AttendanceRecords it reads
  reportShapes       \* the reports generated from it for one date range

aggregateVars == <<slice, reportShapes>>

VARIABLES
  duration,          \* a duration to be labelled: <<>> when missing, else <<minutes>>
  label              \* the outcome of labelling it, once a formatter has run

labelVars == <<duration, label>>

VARIABLES
  intervals,         \* RealTimeUpdates: key -> id of its interval timer
  callbacks,         \* RealTimeUpdates: key -> callback polled under the key
  pollTimers,        \* the interval timers RealTimeUpdates has running
  timerCount,        \* interval timers created so far
  appMounted,        \* App: the component is mounted
  initStep,          \* App: the await initializeApp stands at
  apiStatus,         \* App: apiStatus
  systemInfo,        \* App: systemInfo
  healthChecks,      \* App: polled health checks in flight
  notifications,     \* App: the notification list
  timeouts,          \* App: pending auto-remove timeouts, oldest first
  clockMs,           \* Date.now()
  added              \* notifications created so far

pollingVars == <<intervals, callbacks, pollTimers, timerCount>>
shellVars ==
  <<appMounted, initStep, apiStatus, systemInfo, healthChecks, notifications,
    timeouts, clockMs, added>>
appVars == <<pollingVars, shellVars>>

VARIABLES
  dateFilter,        \* AttendanceManagement: the date filter (0 when '')
  attendance,        \* AttendanceManagement: the attendance list shown
  listError,         \* AttendanceManagement: the error shown
  fetches,           \* AttendanceManagement: fetchData calls in flight
  fetched,           \* fetchData calls made so far
  fetchTimers        \* the 30-second timers running, with their closures

listingVars ==
  <<dateFilter, attendance, listError, fetches, fetched, fetchTimers>>

\* the variables an action of one view leaves alone
outsideAttendance == <<reportVars, rateVars, aggregateVars, labelVars,
    appVars, listingVars>>
outsideReports == <<attendanceVars, rateVars, aggregateVars, labelVars,
    appVars, listingVars>>
outsideRate == <<attendanceVars, reportVars, aggregateVars, labelVars,
    appVars, listingVars>>
outsideAggregate == <<attendanceVars, reportVars, rateVars, labelVars,
    appVars, listingVars>>
outsideLabel == <<attendanceVars, reportVars, rateVars, aggregateVars,
    appVars, listingVars>>
outsideApp == <<attendanceVars, reportVars, rateVars, aggregateVars,
    labelVars, listingVars>>
outsideListing == <<attendanceVars, reportVars, rateVars, aggregateVars,
    labelVars, appVars>>

vars == <<attendanceVars, reportVars, rateVars, aggregateVars, labelVars,
    appVars, listingVars>>

\* selectedEmployee when no row is selected (null)
NoSelection == "none"

\* the form as constructed and as reset after a successful submit
InitialForm(today) ==
  [employee_id |-> "", date |-> today, status |-> "Present",
   check_in_time |-> Null, check_out_time |-> Null]

\* a request of a view to the service
Request(op, e, payload) ==
  [op |-> op, employee_id |-> e, payload |-> payload, state |-> "sent",
   result |-> ""]

\* the response to a request
Response(r, result) ==
  [r EXCEPT !.state = "served", !.result = result, !.payload = InitialForm(0)]

InFlight == BagToSet(reqs)
Pending(op) == {r \in InFlight : r.op = op /\ r.state = "sent"}
Served(op) == {r \in InFlight : r.op = op /\ r.state = "served"}
Send(r) == reqs (+) SetToBag({r})
Reply(r, result) == (reqs (-) SetToBag({r})) (+) SetToBag({Response(r, result)})
Receive(r) == reqs (-) SetToBag({r})

\* the filters as constructed: the last 30 days, no department, no employee
InitialFilters ==
  [dateFrom |-> 1, dateTo |-> 2, department |-> "", employeeId |-> ""]

\* the Reports view after construction and its first effects
ReportsInit ==
  /\ mounted = TRUE
  /\ reportType = ""
  /\ filters = InitialFilters
  /\ reportData = 0
  /\ loading = FALSE
  /\ error = ""
  /\ enabled = FALSE
  /\ retryCount = 0
  /\ isRefreshing = FALSE
  /\ refreshInterval = 0
  /\ countdownInterval = 0
  /\ refreshCountdown = 0
  /\ interval = 60
  /\ cleanup = [refresh |-> 0, countdown |-> 0]
  /\ refreshTimers = {}
  /\ countdownTimers = {}
  /\ calls = {}
  /\ issuedCalls = 0
  /\ reportNotice = <<"", "">>
  /\ noticeCount = 0
  /\ failures = 0

\* no record for today, no rate computed yet
NoRecords == [Present |-> 0, Absent |-> 0, Late |-> 0]
NoRate == [computed |-> FALSE, value |-> 0]
RateInit ==
  /\ todayRecords = NoRecords
  /\ attendance_rate = NoRate

\* no attendance record and no report generated
AggregateInit ==
  /\ slice = {}
  /\ reportShapes = {}

\* no duration given, no label made
NoLabel == [by |-> "", threw |-> FALSE, text |-> ""]
LabelInit ==
  /\ duration = <<>>
  /\ label = NoLabel

\* the map without entries
EmptyMap == [k \in {} |-> 0]

\* App after its mount effect has run: initializeApp awaits the health check
AppInit ==
  /\ intervals = EmptyMap
  /\ callbacks = EmptyMap
  /\ pollTimers = {}
  /\ timerCount = 0
  /\ appMounted = TRUE
  /\ initStep = "health"
  /\ apiStatus = "checking"
  /\ systemInfo = "null"
  /\ healthChecks = 0
  /\ notifications = <<>>
  /\ timeouts = <<>>
  /\ clockMs = 0
  /\ added = 0

\* AttendanceManagement after its mount effect has run: the first fetchData
\* is in flight and the 30-second timer runs
ListingInit ==
  /\ dateFilter = 0
  /\ attendance = {}
  /\ listError = ""
  /\ fetches = {[id |-> 1, dateFilter |-> 0]}
  /\ fetched = 1
  /\ fetchTimers = {[dateFilter |-> 0]}

\* the attendance views after construction
AttendanceInit ==
  /\ now = DayStart
  /\ store = {}
  /\ reqs = EmptyBag
  /\ issued = 0
  /\ submitted = 0
  /\ notification = <<"", "">>
  /\ todayAttendance = {}
  /\ employees = {}
  /\ selectedEmployee = NoSelection
  /\ showCheckoutModal = FALSE
  /\ formData = InitialForm(DateOf(DayStart))

Init ==
  /\ AttendanceInit
  /\ ReportsInit
  /\ RateInit
  /\ AggregateInit
  /\ LabelInit
  /\ AppInit
  /\ ListingInit

\* the state after construction outside the variables of rateVars
outsideRateInit ==
  /\ AttendanceInit
  /\ ReportsInit
  /\ AggregateInit
  /\ LabelInit
  /\ AppInit
  /\ ListingInit

\* the state after construction outside the variables of aggregateVars
outsideAggregateInit ==
  /\ AttendanceInit
  /\ ReportsInit
  /\ RateInit
  /\ LabelInit
  /\ AppInit
  /\ ListingInit

\* the state after construction outside the variables of labelVars
outsideLabelInit ==
  /\ AttendanceInit
  /\ ReportsInit
  /\ RateInit
  /\ AggregateInit
  /\ AppInit
  /\ ListingInit

\* the clock advances
Tick ==
  /\ now + TickMinutes <= LastInstant
  /\ now' = now + TickMinutes
  /\ UNCHANGED <<store, reqs, budget, notification, view, modal, formData>>
  /\ UNCHANGED outsideAttendance

(***************************************************************************)
(* ProfessionalAttendance.                                                 *)
(***************************************************************************)
\* fetchData: on mount, every 30 seconds and after a successful request
fetchData ==
  /\ store' = sweepToday(store, now)
  /\ todayAttendance' = todayRows(store', now)
  /\ employees' = Employees
  /\ UNCHANGED <<now, reqs, budget, notification, modal, formData>>
  /\ UNCHANGED outsideAttendance

\* the Check In button is rendered for this employee
CheckInButton(e) ==
  \/ \E row \in todayAttendance :
        /\ row.employee_id = e
        /\ ~ row.is_checked_in
        /\ row.check_in_time = Null
  \/ /\ e \in employees
     /\ ~ \E row \in todayAttendance : row.employee_id = e

\* handleCheckIn up to its await
handleCheckIn(e) ==
  /\ issued < MaxRequests
  /\ CheckInButton(e)
  /\ issued' = issued + 1
  /\ reqs' = Send(Request("checkin", e, InitialForm(0)))
  /\ UNCHANGED <<service, submitted, notification, view, modal, formData>>
  /\ UNCHANGED outsideAttendance

\* POST /api/attendance/checkin
ServeCheckIn(r) ==
  /\ r \in Pending("checkin")
  /\ LET out == checkIn(store, r.employee_id, now)
     IN /\ store' = out[2]
        /\ reqs' = Reply(r, out[1])
  /\ UNCHANGED <<now, budget, notification, view, modal, formData>>
  /\ UNCHANGED outsideAttendance

\* the notification a handler raises for a response
Notice(result, okMessage) ==
  IF ResponseOk(result) THEN <<okMessage, "success">> ELSE <<result, "error">>

\* handleCheckIn after its await
CheckInResponse(r) ==
  /\ r \in Served("checkin")
  /\ reqs' = Receive(r)
  /\ notification' = Notice(r.result, "Check-in successful")
  /\ UNCHANGED <<service, budget, view, modal, formData>>
  /\ UNCHANGED outsideAttendance

openCheckoutModal(row) ==
  /\ row \in todayAttendance
  /\ row.can_checkout
  /\ selectedEmployee' = row.employee_id
  /\ showCheckoutModal' = TRUE
  /\ UNCHANGED <<service, reqs, budget, notification, view, formData>>
  /\ UNCHANGED outsideAttendance

\* the modal's Cancel button
cancelCheckout ==
  /\ showCheckoutModal
  /\ selectedEmployee' = NoSelection
  /\ showCheckoutModal' = FALSE
  /\ UNCHANGED <<service, reqs, budget, notification, view, formData>>
  /\ UNCHANGED outsideAttendance

\* handleCheckOut up to its await (the modal's Check Out button)
handleCheckOut ==
  /\ issued < MaxRequests
  /\ showCheckoutModal
  /\ selectedEmployee # NoSelection
  /\ issued' = issued + 1
  /\ reqs' = Send(Request("checkout", selectedEmployee, InitialForm(0)))
  /\ UNCHANGED <<service, submitted, notification, view, modal, formData>>
  /\ UNCHANGED outsideAttendance

\* POST /api/attendance/checkout
ServeCheckOut(r) ==
  /\ r \in Pending("checkout")
  /\ LET out == checkOut(store, r.employee_id, now)
     IN /\ store' = out[2]
        /\ reqs' = Reply(r, out[1])
  /\ UNCHANGED <<now, budget, notification, view, modal, formData>>
  /\ UNCHANGED outsideAttendance

\* handleCheckOut after its await, closing the modal whatever the response
CheckOutResponseClosing(r) ==
  /\ r \in Served("checkout")
  /\ reqs' = Receive(r)
  /\ notification' = Notice(r.result, "Check-out successful")
  /\ showCheckoutModal' = FALSE
  /\ selectedEmployee' = NoSelection
  /\ UNCHANGED <<service, budget, view, formData>>
  /\ UNCHANGED outsideAttendance

\* handleCheckOut after its await
CheckOutResponse(r) ==
  /\ r \in Served("checkout")
  /\ reqs' = Receive(r)
  /\ notification' = Notice(r.result, "Check-out successful")
  /\ IF ResponseOk(r.result)
     THEN /\ showCheckoutModal' = FALSE
          /\ selectedEmployee' = NoSelection
     ELSE UNCHANGED modal
  /\ UNCHANGED <<service, budget, view, formData>>
  /\ UNCHANGED outsideAttendance

(***************************************************************************)
(* AttendanceManagement: the mark-attendance form.                         *)
(***************************************************************************)
\* the employee select
setEmployee(e) ==
  /\ formData' = [formData EXCEPT !.employee_id = e]
  /\ UNCHANGED <<service, reqs, budget, notification, view, modal>>
  /\ UNCHANGED outsideAttendance

\* the date input
setDate(d) ==
  /\ formData' = [formData EXCEPT !.date = d]
  /\ UNCHANGED <<service, reqs, budget, notification, view, modal>>
  /\ UNCHANGED outsideAttendance

\* the status select
setStatus(st) ==
  /\ formData' = [formData EXCEPT !.status = st]
  /\ UNCHANGED <<service, reqs, budget, notification, view, modal>>
  /\ UNCHANGED outsideAttendance

\* the time inputs are rendered for these statuses only
TimeFieldsShown == formData.status = "Present" \/ formData.status = "Late"

setCheckInTime(t) ==
  /\ TimeFieldsShown
  /\ formData' = [formData EXCEPT !.check_in_time = t]
  /\ UNCHANGED <<service, reqs, budget, notification, view, modal>>
  /\ UNCHANGED outsideAttendance

setCheckOutTime(t) ==
  /\ TimeFieldsShown
  /\ formData' = [formData EXCEPT !.check_out_time = t]
  /\ UNCHANGED <<service, reqs, budget, notification, view, modal>>
  /\ UNCHANGED outsideAttendance

\* the Now buttons beside the time inputs
setCurrentTimeForField(field) ==
  /\ TimeFieldsShown
  /\ formData' = [formData EXCEPT ![field] = TimeOfDay(now)]
  /\ UNCHANGED <<service, reqs, budget, notification, view, modal>>
  /\ UNCHANGED outsideAttendance

\* handleSubmit up to its await, with the form holding p; the employee and the
\* date are required inputs
submitForm(p) ==
  /\ issued < MaxRequests
  /\ submitted < MaxSubmits
  /\ p.employee_id # ""
  /\ issued' = issued + 1
  /\ submitted' = submitted + 1
  /\ reqs' = Send(Request("mark", p.employee_id, p))
  /\ UNCHANGED <<service, notification, view, modal, formData>>
  /\ UNCHANGED outsideAttendance

handleSubmit == submitForm(formData)

\* the contents the form's inputs can hold
FormContents ==
  [employee_id : Employees \cup {""}, date : Dates, status : FormStatuses,
   check_in_time : FormTimes, check_out_time : FormTimes]

\* POST /api/attendance
ServeMark(r) ==
  /\ r \in Pending("mark")
  /\ LET out == markAttendance(store, r.payload)
     IN /\ store' = out[2]
        /\ reqs' = Reply(r, out[1])
  /\ UNCHANGED <<now, budget, notification, view, modal, formData>>
  /\ UNCHANGED outsideAttendance

\* handleSubmit after its await
MarkResponse(r) ==
  /\ r \in Served("mark")
  /\ reqs' = Receive(r)
  /\ notification' = Notice(r.result, "Attendance marked successfully")
  /\ formData' = IF ResponseOk(r.result)
                 THEN InitialForm(DateOf(now)) ELSE formData
  /\ UNCHANGED <<service, budget, view, modal>>
  /\ UNCHANGED outsideAttendance

(***************************************************************************)
(* Specifications.                                                         *)
(***************************************************************************)
\* the attendance state machine driven by both views; the contents of the
\* form at a submit are an input
Next ==
  \/ Tick
  \/ fetchData
  \/ \E e \in Employees : handleCheckIn(e)
  \/ \E r \in InFlight : ServeCheckIn(r)
  \/ \E r \in InFlight : CheckInResponse(r)
  \/ \E row \in todayAttendance : openCheckoutModal(row)
  \/ cancelCheckout
  \/ handleCheckOut
  \/ \E r \in InFlight : ServeCheckOut(r)
  \/ \E r \in InFlight : CheckOutResponse(r)
  \/ \E p \in FormContents : submitForm(p)
  \/ \E r \in InFlight : ServeMark(r)
  \/ \E r \in InFlight : MarkResponse(r)

Spec == Init /\ [][Next]_vars

\* the mark-attendance form edited field by field
NextForm ==
  \/ Tick
  \/ \E e \in Employees \cup {""} : setEmployee(e)
  \/ \E d \in Dates : setDate(d)
  \/ \E st \in FormStatuses : setStatus(st)
  \/ \E t \in FormTimes : setCheckInTime(t)
  \/ \E t \in FormTimes : setCheckOutTime(t)
  \/ \E f \in {"check_in_time", "check_out_time"} : setCurrentTimeForField(f)
  \/ handleSubmit
  \/ \E r \in InFlight : ServeMark(r)
  \/ \E r \in InFlight : MarkResponse(r)

SpecForm == Init /\ [][NextForm]_vars

(***************************************************************************)
(* Properties of the attendance state machine.                             *)
(***************************************************************************)
\* the outcomes of the service's operations
Results ==
  {"ok", "AlreadyCheckedIn", "NotCheckedIn", "InvalidTimeOrder",
   "ValidationError"}

\* the records stored under key (e, date of t)
RecordsAt(e, t) == storeGet(store, e, DateOf(t))

\* employee e has an open check-in at instant t: the stored record for the day
\* has a check-in and no check-out, and the auto-checkout, which the service
\* applies lazily, is not due at t
OpenAt(e, t) ==
  \E rec \in RecordsAt(e, t) : HasOpenCheckIn(applyAutoCheckoutIfDue(rec, t))

\* the step serves request r with this result
Serves(r, result) == reqs' = Reply(r, result)

\* the step delivers response r to its handler
Delivers(r) == reqs' = Receive(r)

\* C1: for an employee whose record for the day has a check-in and no
\* check-out (none recorded and none due: the auto-checkout is a check-out
\* the service applies lazily), a second checkIn before any check-out fails
\* with AlreadyCheckedIn and leaves the store, hence the recorded
\* check_in_time, unchanged, in every reachable state; the view reports the
\* failure as an error and not as a successful check-in.
C1_SecondCheckInRejected ==
  [][ /\ \A r \in Pending("checkin") : \A res \in Results :
            (Serves(r, res) /\ OpenAt(r.employee_id, now))
               => /\ res = "AlreadyCheckedIn"
                  /\ store' = store
                  /\ \A rec \in RecordsAt(r.employee_id, now) :
                        \E rec2 \in storeGet(store', r.employee_id, DateOf(now)) :
                           rec2.check_in_time = rec.check_in_time
      /\ \A r \in Served("checkin") :
            (Delivers(r) /\ r.result = "AlreadyCheckedIn")
               => /\ notification' = <<"AlreadyCheckedIn", "error">>
                  /\ store' = store
    ]_vars

\* a second check-in was rejected and reported while the check-in is open
C1_Witness ==
  /\ notification = <<"AlreadyCheckedIn", "error">>
  /\ \E rec \in store : HasOpenCheckIn(rec) /\ rec.checked_out_by = "none"
  /\ issued >= 2

\* C2: checkOut for an employee whose record for the day is absent or has no
\* open check-in fails with NotCheckedIn and changes no record; the view
\* reports the failure and keeps the modal as it was.
C2_CheckOutWithoutCheckIn ==
  [][ /\ \A r \in Pending("checkout") : \A res \in Results :
            (/\ Serves(r, res)
             /\ ~ \E rec \in RecordsAt(r.employee_id, now) : HasOpenCheckIn(rec))
               => /\ res = "NotCheckedIn"
                  /\ store' = store
      /\ \A r \in Served("checkout") :
            (Delivers(r) /\ r.result = "NotCheckedIn")
               => /\ notification' = <<"NotCheckedIn", "error">>
                  /\ store' = store
                  /\ UNCHANGED modal
    ]_vars

\* a check-out was rejected for an employee who had already checked out
C2_Witness ==
  \E r \in Served("checkout") :
     /\ r.result = "NotCheckedIn"
     /\ \E rec \in RecordsAt(r.employee_id, now) : rec.checked_out_by = "user"

\* C3: requests for one (employee, day) key are served one at a time, and a
\* checkIn succeeds exactly when the key has no open check-in at that moment:
\* of two check-ins in flight for the same key the first served succeeds and
\* opens the key, so the second fails with AlreadyCheckedIn; the records of
\* every other key, another employee's or another day's, are left as they
\* were, so different keys do not block each other.
C3_OneCheckInPerKey ==
  [][ \A r \in Pending("checkin") : \A res \in Results :
         Serves(r, res)
            => /\ (res = "ok") <=> ~ OpenAt(r.employee_id, now)
               /\ (res = "AlreadyCheckedIn") <=> OpenAt(r.employee_id, now)
               /\ \E rec \in storeGet(store', r.employee_id, DateOf(now)) :
                     HasOpenCheckIn(rec)
               /\ \A rec \in store :
                     Key(rec) # <<r.employee_id, DateOf(now)>> => rec \in store'
               /\ \A rec \in store' :
                     Key(rec) # <<r.employee_id, DateOf(now)>> => rec \in store
    ]_vars

\* two check-ins for one employee were in flight together, one succeeded and
\* the other failed, and a check-in for the other employee succeeded
C3_Witness ==
  \E r1, r2, r3 \in Served("checkin") :
     /\ r1.employee_id = r2.employee_id
     /\ r1.result = "ok"
     /\ r2.result = "AlreadyCheckedIn"
     /\ r3.employee_id # r1.employee_id
     /\ r3.result = "ok"
     /\ now = DayStart

\* C4: checkOut at an instant strictly before the recorded check_in_time is
\* rejected with InvalidTimeOrder and stores nothing; checkOut at an instant
\* equal to the check_in_time succeeds with working_minutes = 0 and
\* is_auto_checkout = false.
C4_CheckOutTimeOrder ==
  [][ \A r \in Pending("checkout") : \A res \in Results :
         \A rec \in RecordsAt(r.employee_id, now) :
            (Serves(r, res) /\ HasOpenCheckIn(rec))
               => /\ now < rec.check_in_time
                       => res = "InvalidTimeOrder" /\ store' = store
                  /\ now = rec.check_in_time
                       => /\ res = "ok"
                          /\ \E out \in storeGet(store', r.employee_id, DateOf(now)) :
                                /\ out.check_in_time = rec.check_in_time
                                /\ out.check_out_time = now
                                /\ out.working_minutes = 0
                                /\ out.is_auto_checkout = FALSE
    ]_vars

\* a check-out before the recorded check-in was rejected, and the check-in is
\* still open
C4_Witness ==
  \E r \in Served("checkout") :
     /\ r.result = "InvalidTimeOrder"
     /\ \E rec \in RecordsAt(r.employee_id, now) :
           HasOpenCheckIn(rec) /\ now < rec.check_in_time

\* a check-out at the instant of the check-in was stored with no working time
C4_ZeroDuration ==
  \E rec \in store :
     /\ rec.checked_out_by = "user"
     /\ rec.check_out_time = rec.check_in_time
     /\ rec.working_minutes = 0
     /\ ~ rec.is_auto_checkout

\* the instants at which a stored record is evaluated: the clock's instants and
\* the instants around the record's ceiling
EvaluationInstants(rec) ==
  {DayStart + k * TickMinutes : k \in 0 .. MaxTicks}
    \cup {rec.check_in_time + Ceiling + d : d \in {0 - 1, 0, 5}}

\* the record after an auto-checkout: capped at the ceiling, not at the
\* instant of the evaluation
AutoCheckedOut(rec) ==
  [rec EXCEPT !.check_out_time = rec.check_in_time + 600,
              !.is_auto_checkout = TRUE,
              !.working_minutes = 600,
              !.checked_out_by = "auto"]

\* C5: for a record with an open check-in, applyAutoCheckoutIfDue(record, now)
\* sets check_out_time = check_in_time + 10 h, is_auto_checkout = true and
\* working_minutes = 600 exactly when now - check_in_time >= 10 h, and
\* otherwise leaves the record unchanged; a check-in at 08:00 evaluated at
\* 18:05 yields check-out 18:00; every stored auto-checkout has these values.
C5_AutoCheckoutAtCeiling ==
  /\ \A rec \in store : HasOpenCheckIn(rec) =>
        \A t \in EvaluationInstants(rec) :
           /\ t - rec.check_in_time >= 600
                => applyAutoCheckoutIfDue(rec, t) = AutoCheckedOut(rec)
           /\ t - rec.check_in_time < 600
                => applyAutoCheckoutIfDue(rec, t) = rec
  /\ \A rec \in store : rec.is_auto_checkout =>
        /\ rec.check_out_time = rec.check_in_time + 600
        /\ rec.working_minutes = 600
  /\ LET out == applyAutoCheckoutIfDue(CheckedInRecord("E1", 8 * 60), 18 * 60 + 5)
     IN /\ out.check_out_time = 18 * 60
        /\ out.is_auto_checkout
        /\ out.working_minutes = 600

\* a record was auto-checked-out by an evaluation after its ceiling while
\* another check-in is still open
C5_Witness ==
  /\ \E rec \in store : rec.is_auto_checkout /\ now >= rec.check_out_time
  /\ \E rec \in store : HasOpenCheckIn(rec)

\* C6: applyAutoCheckoutIfDue is idempotent: on a record whose check_out_time
\* is set, by whichever path, it is a no-op, and applying it twice gives the
\* same record as applying it once.
C6_AutoCheckoutIdempotent ==
  \A rec \in store : \A t \in EvaluationInstants(rec) :
     /\ rec.check_out_time # Null => applyAutoCheckoutIfDue(rec, t) = rec
     /\ applyAutoCheckoutIfDue(applyAutoCheckoutIfDue(rec, t), t)
          = applyAutoCheckoutIfDue(rec, t)
     /\ \A u \in EvaluationInstants(rec) :
           (u >= t /\ applyAutoCheckoutIfDue(rec, t) # rec)
              => applyAutoCheckoutIfDue(applyAutoCheckoutIfDue(rec, t), u)
                   = applyAutoCheckoutIfDue(rec, t)

\* a record checked out by the user is evaluated after its ceiling has passed
C6_Witness ==
  \E rec \in store :
     /\ rec.checked_out_by = "user"
     /\ now - rec.check_in_time >= Ceiling
     /\ rec.date = DateOf(now)

\* C7: for one open check-in exactly one of user check-out and auto-checkout
\* takes effect, and is_auto_checkout tells which: a record is flagged, and
\* shown as Auto Checked Out, only if the auto-checkout closed it, and a
\* record closed by the user is not flagged and is shown as Checked Out.
C7_ExactlyOneCheckOut ==
  \A rec \in store :
     /\ rec.is_auto_checkout <=> rec.checked_out_by = "auto"
     /\ rec.check_out_time # Null <=> rec.checked_out_by # "none"
     /\ rec.checked_out_by = "auto"
          => getStatusBadge(TodayRow(rec, now)) = "Auto Checked Out"
     /\ rec.checked_out_by = "user"
          => getStatusBadge(TodayRow(rec, now)) = "Checked Out"

\* the user's check-out lost the race: it was served after the auto-checkout
\* became due, was rejected, and the record is flagged
C7_Witness ==
  \E r \in Served("checkout") :
     /\ r.result = "NotCheckedIn"
     /\ \E rec \in RecordsAt(r.employee_id, now) : rec.is_auto_checkout

\* the stored records keep check_out_time set => check_in_time set and
\* check_out_time >= check_in_time
TimesOrdered ==
  \A rec \in store :
     /\ rec.check_out_time # Null => rec.check_in_time # Null
     /\ (rec.check_out_time # Null /\ rec.check_in_time # Null)
          => rec.check_out_time >= rec.check_in_time

C9_AbsentSubmitsNoTimes ==
  \A r \in Pending("mark") :
     r.payload.status = "Absent"
        => /\ r.payload.check_in_time = Null
           /\ r.payload.check_out_time = Null

\* C10: the store holds at most one record per (employee_id, date): marking
\* attendance or checking in for a key that already has a record replaces
\* that record and never adds a second one.
C10_OneRecordPerKey ==
  /\ \A r1, r2 \in store : Key(r1) = Key(r2) => r1 = r2
  /\ Cardinality(store) <= Cardinality(Employees) * Cardinality(Dates)

\* a check-in created a record and a submission for the same key replaced it
C10_Witness ==
  /\ issued = 2
  /\ submitted = 1
  /\ reqs = EmptyBag
  /\ Cardinality(store) = 1
  /\ \E rec \in store : rec.status = "Absent"

(***************************************************************************)
(* Reports view: report generation and the auto-refresh controller.        *)
(* The report endpoints (/api/reports/...) are part of the service and are *)
(* modelled from sections 4.3 and 7 of the specification.                  *)
(***************************************************************************)
\* number of report-generation calls issued in one behaviour
MaxCalls == 4
\* refreshSettings.maxRetries
MaxRetries == 3
\* refreshSettings.pauseOnError
PauseOnError == TRUE

ReportTypes == {"attendance-summary", "employee-performance", "department"}
\* values of the date inputs: 0 is the empty input, 1 and 2 are two days
ReportDates == {0, 1, 2}
Departments == {"", "Engineering"}
EmployeeIds == {"", "E1"}
FilterValues ==
  [dateFrom : ReportDates, dateTo : ReportDates, department : Departments,
   employeeId : EmployeeIds]
\* ids of browser timers
TimerIds == 1 .. 4

\* checks that let a report be requested without its department or employee
validateWithoutFilterCheck(type, f) ==
  IF type = "" THEN "Please select a report type"
  ELSE IF f.dateFrom = 0 \/ f.dateTo = 0 THEN "Please select date range"
  ELSE ""

\* generateReport, its checks before the request: the error it sets, or ""
validate(type, f) ==
  IF type = "" THEN "Please select a report type"
  ELSE IF f.dateFrom = 0 \/ f.dateTo = 0 THEN "Please select date range"
  ELSE IF type = "employee-performance" /\ f.employeeId = ""
  THEN "Please select an employee for performance report"
  ELSE IF type = "department" /\ f.department = ""
  THEN "Please select a department for department report"
  ELSE ""

\* a report-generation call: generateReport(silent) of the render that holds
\* this report type, these filters and this retryCount
Call(id, silent, type, f, retries) ==
  [id |-> id, silent |-> silent, reportType |-> type, filters |-> f,
   retryCount |-> retries]

\* a service that aggregates whatever range it is given
OutcomesAnyRange(c) ==
  IF \/ c.reportType = "department" /\ c.filters.department = ""
     \/ c.reportType = "employee-performance" /\ c.filters.employeeId = ""
  THEN {"MissingFilter"}
  ELSE {"ok", "StoreUnavailable"}

\* the outcomes the service can answer a report request with
Outcomes(c) ==
  IF c.filters.dateFrom = 0 \/ c.filters.dateTo = 0
       \/ c.filters.dateFrom > c.filters.dateTo
  THEN {"InvalidRange"}
  ELSE IF \/ c.reportType = "department" /\ c.filters.department = ""
          \/ c.reportType = "employee-performance" /\ c.filters.employeeId = ""
  THEN {"MissingFilter"}
  ELSE {"ok", "StoreUnavailable"}

\* whether generateReport rethrows a failed request to its caller: its catch
\* block sets the error, notifies and returns
generateReportThrows(outcome) == FALSE

\* onNotification with k notifications
Notify(msg, kind) ==
  /\ reportNotice' = <<msg, kind>>
  /\ noticeCount' = (noticeCount + 1) % 4

\* a timer id not in use
FreshTimer ==
  CHOOSE n \in TimerIds :
     /\ n \notin {refreshInterval, countdownInterval, cleanup.refresh,
                  cleanup.countdown}
     /\ n \notin {t.id : t \in refreshTimers \cup countdownTimers}
     /\ \A m \in TimerIds :
           (m < n) => \/ m \in {refreshInterval, countdownInterval,
                               cleanup.refresh, cleanup.countdown}
                      \/ m \in {t.id : t \in refreshTimers \cup countdownTimers}

\* a clearInterval without effect
stopNothing(timers, r) == timers

\* stopAutoRefresh of a render that holds timer ids r and c: the active timers
\* left
stopRefresh(timers, r) == {t \in timers : t.id # r}
stopCountdown(timers, c) == {t \in timers : t.id # c}

\* the effect on [enabled, reportData, reportType]: the cleanup of the previous
\* effect, then startAutoRefresh or stopAutoRefresh of the new render
RunEffect ==
  LET rs == stopRefresh(stopRefresh(refreshTimers, cleanup.refresh),
                        refreshInterval)
      cs == stopCountdown(stopCountdown(countdownTimers, cleanup.countdown),
                          countdownInterval)
  IN /\ cleanup' = [refresh |-> refreshInterval, countdown |-> countdownInterval]
     /\ IF enabled' /\ reportData' # 0 /\ reportType' # ""
        THEN /\ refreshTimers' = rs \cup
                  {[id |-> FreshTimer, isRefreshing |-> isRefreshing',
                    retryCount |-> retryCount', reportType |-> reportType',
                    filters |-> filters']}
             /\ countdownTimers' =
                  cs \cup {[id |-> FreshTimer, interval |-> interval']}
             /\ refreshInterval' = FreshTimer
             /\ countdownInterval' = FreshTimer
             /\ refreshCountdown' = interval'
        ELSE /\ refreshTimers' = rs
             /\ countdownTimers' = cs
             /\ refreshInterval' = 0
             /\ countdownInterval' = 0
             /\ refreshCountdown' = 0

\* the render after a handler: the effect runs when one of its dependencies
\* changed
Commit ==
  IF <<enabled', reportData', reportType', interval'>>
       # <<enabled, reportData, reportType, interval>>
  THEN RunEffect
  ELSE UNCHANGED timerState

\* onNotification once for each notification of the sequence
NotifyAll(ns) ==
  IF ns = <<>> THEN UNCHANGED notices
  ELSE /\ reportNotice' = ns[Len(ns)]
       /\ noticeCount' = (noticeCount + Len(ns)) % 4

\* the notification generateReport raises beside a validation error
validationNotice(msg) ==
  IF msg = "Please select an employee for performance report"
  THEN "Please select an employee"
  ELSE IF msg = "Please select a department for department report"
  THEN "Please select a department"
  ELSE msg

\* the report type buttons
setReportType(t) ==
  /\ mounted
  /\ reportType' = t
  /\ UNCHANGED <<mounted, interval, filters, reportData, loading, error, enabled,
                 retryCount, isRefreshing, calls, issuedCalls, notices,
                 failures>>
  /\ Commit
  /\ UNCHANGED outsideReports

\* the filter inputs
setFilters(f) ==
  /\ mounted
  /\ filters' = f
  /\ UNCHANGED <<mounted, interval, reportType, reportData, loading, error, enabled,
                 retryCount, isRefreshing, timerState, calls, issuedCalls,
                 notices, failures>>
  /\ UNCHANGED outsideReports

\* generateReport(false) up to its await: the Generate and Refresh buttons
manualGenerate ==
  /\ mounted
  /\ ~ loading
  /\ reportType # ""
  /\ LET msg == validate(reportType, filters)
     IN IF msg # ""
        THEN /\ error' = msg
             /\ Notify(validationNotice(msg), "warning")
             /\ UNCHANGED <<loading, calls, issuedCalls>>
        ELSE /\ issuedCalls < MaxCalls
             /\ loading' = TRUE
             /\ error' = ""
             /\ issuedCalls' = issuedCalls + 1
             /\ calls' = calls \cup
                  {Call(issuedCalls + 1, FALSE, reportType, filters, 0)}
             /\ UNCHANGED notices
  /\ UNCHANGED <<mounted, interval, reportType, filters, reportData, enabled, retryCount,
                 isRefreshing, timerState, failures>>
  /\ UNCHANGED outsideReports

\* the Auto-refresh checkbox, rendered once a report is shown
toggleAutoRefresh ==
  /\ mounted
  /\ reportData # 0
  /\ enabled' = ~ enabled
  /\ Notify(IF enabled THEN "Auto-refresh disabled" ELSE "Auto-refresh enabled",
            "info")
  /\ UNCHANGED <<mounted, interval, reportType, filters, reportData, loading, error,
                 retryCount, isRefreshing, calls, issuedCalls, failures>>
  /\ Commit
  /\ UNCHANGED outsideReports

\* the options of the Refresh-every select, in seconds
IntervalOptions == {30, 60, 120, 300}

\* the Refresh-every select, rendered while auto-refresh is enabled
selectInterval(seconds) ==
  /\ mounted
  /\ reportData # 0
  /\ enabled
  /\ seconds # interval
  /\ interval' = seconds
  /\ UNCHANGED <<mounted, reportType, filters, reportData, loading, error,
                 enabled, retryCount, isRefreshing, calls, issuedCalls,
                 notices, failures>>
  /\ Commit
  /\ UNCHANGED outsideReports

\* a countdown that wraps one second late
countdownThroughZero(prev, seconds) ==
  IF prev <= 0 THEN seconds ELSE prev - 1

\* the updater the countdown timer passes to setRefreshCountdown; seconds is
\* refreshSettings.interval of the render that started the timer
countdownAfter(prev, seconds) ==
  IF prev <= 1 THEN seconds ELSE prev - 1

\* the countdown timer t fires: one second has passed
countdownTick(t) ==
  /\ mounted
  /\ t \in countdownTimers
  /\ refreshCountdown' = countdownAfter(refreshCountdown, t.interval)
  /\ UNCHANGED <<mounted, reportState, refreshInterval, countdownInterval,
                 cleanup, refreshTimers, countdownTimers, calls, issuedCalls,
                 notices, failures>>
  /\ UNCHANGED outsideReports

\* the refresh timer t fires: performAutoRefresh of the render that started
\* the timer, up to the await in generateReport(true)
refreshTick(t) ==
  /\ mounted
  /\ t \in refreshTimers
  /\ ~ t.isRefreshing
  /\ LET msg == validate(t.reportType, t.filters)
     IN IF msg # ""
        THEN /\ error' = msg
             /\ Notify(validationNotice(msg), "warning")
             /\ retryCount' = 0
             /\ isRefreshing' = FALSE
             /\ UNCHANGED <<calls, issuedCalls>>
        ELSE /\ issuedCalls < MaxCalls
             /\ isRefreshing' = TRUE
             /\ error' = ""
             /\ issuedCalls' = issuedCalls + 1
             /\ calls' = calls \cup
                  {Call(issuedCalls + 1, TRUE, t.reportType, t.filters,
                        t.retryCount)}
             /\ UNCHANGED <<retryCount, notices>>
  /\ UNCHANGED <<mounted, interval, reportType, filters, reportData, loading, enabled,
                 timerState, failures>>
  /\ UNCHANGED outsideReports

\* the notifications raised when call c completes with this outcome: by
\* generateReport, then by performAutoRefresh
completionNotices(c, outcome) ==
  (IF outcome # "ok" THEN << <<outcome, "error">> >>
   ELSE IF ~ c.silent THEN << <<"Report generated successfully", "success">> >>
   ELSE <<>>)
  \o (IF /\ c.silent
         /\ generateReportThrows(outcome)
         /\ PauseOnError
         /\ c.retryCount >= MaxRetries
      THEN << <<"Auto-refresh paused", "warning">> >>
      ELSE <<>>)

\* consecutive failed scheduled refreshes after call c completes
failuresAfter(c, outcome) ==
  IF ~ c.silent THEN failures
  ELSE IF outcome = "ok" THEN 0 ELSE failures + 1

\* a controller that switches itself on again when a report arrives
enabledAfterResuming(c, outcome) ==
  IF outcome = "ok" THEN TRUE ELSE enabled

\* refreshSettings.enabled after call c completes: performAutoRefresh pauses
\* the controller in its catch block, nothing else writes the setting
enabledAfter(c, outcome) ==
  IF /\ c.silent
     /\ generateReportThrows(outcome)
     /\ PauseOnError
     /\ c.retryCount >= MaxRetries
  THEN FALSE ELSE enabled

\* the request of call c completes: generateReport after its await and, for a
\* scheduled refresh, performAutoRefresh after its await
reportDelivered(c, outcome) ==
  /\ mounted
  /\ c \in calls
  /\ outcome \in Outcomes(c)
  /\ calls' = calls \ {c}
  /\ reportData' = IF outcome = "ok" THEN c.id ELSE reportData
  /\ error' = IF outcome = "ok" THEN error ELSE outcome
  /\ loading' = IF c.silent THEN loading ELSE FALSE
  /\ NotifyAll(completionNotices(c, outcome))
  /\ retryCount' = IF ~ c.silent THEN retryCount
                   ELSE IF generateReportThrows(outcome) THEN retryCount + 1
                   ELSE 0
  /\ enabled' = enabledAfter(c, outcome)
  /\ isRefreshing' = IF c.silent THEN FALSE ELSE isRefreshing
  /\ failures' = failuresAfter(c, outcome)
  /\ UNCHANGED <<mounted, interval, reportType, filters, issuedCalls>>
  /\ Commit
  /\ UNCHANGED outsideReports

\* the Reports view is discarded: the cleanup of the last effect runs
unmount ==
  /\ mounted
  /\ mounted' = FALSE
  /\ refreshTimers' = stopRefresh(refreshTimers, cleanup.refresh)
  /\ countdownTimers' = stopCountdown(countdownTimers, cleanup.countdown)
  /\ UNCHANGED <<reportState, refreshInterval, countdownInterval,
                 refreshCountdown, cleanup,
                 calls, issuedCalls, notices, failures>>
  /\ UNCHANGED outsideReports

\* a refresh timer that outlived the view fires: the state setters do nothing
orphanTick(t) ==
  /\ ~ mounted
  /\ t \in refreshTimers
  /\ ~ t.isRefreshing
  /\ LET msg == validate(t.reportType, t.filters)
     IN IF msg # ""
        THEN /\ Notify(validationNotice(msg), "warning")
             /\ UNCHANGED <<calls, issuedCalls>>
        ELSE /\ issuedCalls < MaxCalls
             /\ issuedCalls' = issuedCalls + 1
             /\ calls' = calls \cup
                  {Call(issuedCalls + 1, TRUE, t.reportType, t.filters,
                        t.retryCount)}
             /\ UNCHANGED notices
  /\ UNCHANGED <<mounted, reportState, timerState, failures>>
  /\ UNCHANGED outsideReports

\* a request completes after the view was discarded
orphanDelivered(c, outcome) ==
  /\ ~ mounted
  /\ c \in calls
  /\ outcome \in Outcomes(c)
  /\ calls' = calls \ {c}
  /\ NotifyAll(completionNotices(c, outcome))
  /\ failures' = failuresAfter(c, outcome)
  /\ UNCHANGED <<mounted, reportState, timerState, issuedCalls>>
  /\ UNCHANGED outsideReports

\* the filters edited while the auto-refresh controller is exercised
RefreshFilters ==
  {f \in FilterValues :
     /\ f.dateFrom = InitialFilters.dateFrom
     /\ f.dateTo = InitialFilters.dateTo
     /\ f.employeeId = ""}

\* the auto-refresh controller of the Reports view
NextRefresh ==
  \/ setReportType("attendance-summary")
  \/ \E f \in RefreshFilters : setFilters(f)
  \/ manualGenerate
  \/ toggleAutoRefresh
  \/ \E t \in refreshTimers : refreshTick(t)
  \/ \E c \in calls : \E o \in Outcomes(c) : reportDelivered(c, o)
  \/ unmount
  \/ \E t \in refreshTimers : orphanTick(t)
  \/ \E c \in calls : \E o \in Outcomes(c) : orphanDelivered(c, o)

SpecRefresh == Init /\ [][NextRefresh]_vars

(***************************************************************************)
(* Properties of the auto-refresh controller.                              *)
(***************************************************************************)
\* the step completes the scheduled refresh c while the view is mounted
Completes(c) == mounted /\ c \in calls /\ c.silent /\ calls' = calls \ {c}

\* the step completes it with a failure, with success
CompletesFailed(c) == Completes(c) /\ failures' = failures + 1
CompletesOk(c) == Completes(c) /\ failures' = 0

\* the scheduled refreshes in flight
ScheduledInFlight == {c \in calls : c.silent}

\* C11: every scheduled refresh whose report-generation call fails increments
\* the retry counter by one, and every scheduled refresh that succeeds resets
\* it to 0.
C11_RetryCounterFollowsOutcome ==
  [][ \A c \in calls :
         /\ CompletesFailed(c) => retryCount' = retryCount + 1
         /\ CompletesOk(c) => retryCount' = 0
    ]_vars

\* C12: with pauseOnError set, when the consecutive failed scheduled refreshes
\* reach maxRetries the controller disables itself and emits a notification,
\* so it does not keep retrying.
C12_PausedAtMaxRetries ==
  [][ \A c \in calls :
         (CompletesFailed(c) /\ PauseOnError /\ failures' >= MaxRetries)
            => /\ ~ enabled'
               /\ noticeCount' # noticeCount
               /\ refreshTimers' = {}
    ]_vars

\* C13: at no time are two scheduled report-generation calls in flight at
\* once, for every timing of trigger ticks and call completions.
C13_NoOverlappingRefresh == Cardinality(ScheduledInFlight) <= 1

\* C14: whenever refresh is disabled and whenever the Reports view is
\* discarded, neither the countdown timer nor the refresh timer is still
\* active, so no further scheduled refresh fires.
C14_TimersTornDown ==
  (~ enabled \/ ~ mounted) => refreshTimers = {} /\ countdownTimers = {}

\* the step is the Auto-refresh checkbox being ticked
ToggledOn ==
  /\ mounted
  /\ reportNotice' = <<"Auto-refresh enabled", "info">>
  /\ noticeCount' # noticeCount

\* C15: the controller does not resume by itself: enabled turns from false
\* to true only in a step of the manual toggle, never when a timer fires, a
\* report generation completes, a filter changes or the view is discarded.
C15_NoAutoResume == [][ (~ enabled /\ enabled') => ToggledOn ]_vars

\* a scheduled refresh failed, the controller was switched off, a manual
\* generation then succeeded, and the controller is still off
C15_StillDisabledAfterManualReport ==
  /\ mounted
  /\ ~ enabled
  /\ failures > 0
  /\ calls = {}
  /\ reportNotice = <<"Report generated successfully", "success">>

\* the step completes the manual generation c with a failure
ManualFailed(c) ==
  /\ mounted
  /\ c \in calls
  /\ ~ c.silent
  /\ calls' = calls \ {c}
  /\ reportData' = reportData
  /\ ~ loading'
  /\ loading

\* C16: a failed manual generation is surfaced at once (error shown and a
\* notification raised); a failed scheduled refresh that leaves the retry
\* budget unexhausted raises no notification, and one that exhausts it raises
\* exactly one.
C16_ScheduledFailureQuietUntilExhausted ==
  [][ \A c \in calls :
         /\ ManualFailed(c)
               => (error' # "" /\ noticeCount' = (noticeCount + 1) % 4)
         /\ (CompletesFailed(c) /\ failures' < MaxRetries)
               => UNCHANGED notices
         /\ (CompletesFailed(c) /\ failures' = MaxRetries)
               => noticeCount' = (noticeCount + 1) % 4
    ]_vars

\* a tick of refresh timer t calls performAutoRefresh: the guard of the timer
\* callback reads the isRefreshing of the render that started the timer
TickRefreshes(t) == ~ t.isRefreshing

\* C17: a failed scheduled refresh does not stop the polling loop: while the
\* controller is enabled the refresh timer stays active, its next tick still
\* calls performAutoRefresh, and the report shown is left unchanged.
C17_FailedRefreshKeepsPolling ==
  [][ \A c \in calls :
         (CompletesFailed(c) /\ enabled)
            => /\ refreshTimers' = refreshTimers
               /\ reportData' = reportData
               /\ \E t \in refreshTimers' : TickRefreshes(t)
    ]_vars

(***************************************************************************)
(* Report generation from the filter form: every report type and every     *)
(* value of the filter inputs, without the auto-refresh controller.        *)
(***************************************************************************)
\* the filters after one input of the form is edited
EditedFilters ==
  {f \in FilterValues :
     Cardinality({k \in DOMAIN f : f[k] # filters[k]}) = 1}

NextFilters ==
  \/ \E t \in ReportTypes : setReportType(t)
  \/ \E f \in EditedFilters : setFilters(f)
  \/ manualGenerate
  \/ \E c \in calls : \E o \in Outcomes(c) : reportDelivered(c, o)

SpecFilters == Init /\ [][NextFilters]_vars

\* the report type needs a department or an employee the filters do not name
MissingFilter(type, f) ==
  \/ type = "department" /\ f.department = ""
  \/ type = "employee-performance" /\ f.employeeId = ""

\* the step runs generateReport of the current render up to its await or
\* its early return
Generates ==
  /\ mounted
  /\ UNCHANGED <<reportType, filters, enabled>>
  /\ calls \subseteq calls'
  /\ (calls' # calls \/ noticeCount' # noticeCount)

\* C18: generating a Department report without a department, or an Employee
\* Performance report without an employee, reports an error, issues no
\* request and leaves the report shown unchanged; no request in flight ever
\* lacks the filter its report type requires.
C18_MissingFilterRejected ==
  [][ /\ (Generates /\ filters.dateFrom # 0 /\ filters.dateTo # 0
             /\ MissingFilter(reportType, filters))
           => /\ error' \in {"Please select an employee for performance report",
                             "Please select a department for department report"}
              /\ noticeCount' # noticeCount
              /\ calls' = calls
              /\ issuedCalls' = issuedCalls
              /\ reportData' = reportData
      /\ \A c \in calls' : ~ MissingFilter(c.reportType, c.filters)
    ]_vars

\* a report is shown, a Department report was then requested without a
\* department, and the error is displayed
C18_DepartmentReportRefused ==
  /\ reportData # 0
  /\ reportType = "department"
  /\ filters.department = ""
  /\ error = "Please select a department for department report"
  /\ reportNotice = <<"Please select a department", "warning">>
  /\ calls = {}

\* the step completes the request of call c while the view is mounted
Answered(c) == mounted /\ c \in calls /\ calls' = calls \ {c}

\* C19: a generation with an empty end of the date range is refused before any
\* request; a request whose range has from > to fails with InvalidRange,
\* producing no report and leaving the report shown unchanged; a request
\* whose range has from <= to, from = to included, never fails with
\* InvalidRange.
C19_DateRangeRequired ==
  [][ /\ (Generates /\ (filters.dateFrom = 0 \/ filters.dateTo = 0))
           => /\ error' = "Please select date range"
              /\ calls' = calls
              /\ reportData' = reportData
      /\ \A c \in calls :
            /\ (Answered(c) /\ c.filters.dateFrom > c.filters.dateTo)
                 => (error' = "InvalidRange" /\ reportData' = reportData)
            /\ (Answered(c) /\ c.filters.dateFrom <= c.filters.dateTo)
                 => (error' # "InvalidRange" /\ reportNotice'[1] # "InvalidRange")
    ]_vars

\* a report is shown, a generation over a range with from > to was then
\* answered with InvalidRange, and the report shown is the earlier one
C19_InvertedRangeRefused ==
  /\ reportData # 0
  /\ filters.dateFrom > filters.dateTo
  /\ error = "InvalidRange"
  /\ reportNotice = <<"InvalidRange", "error">>
  /\ calls = {}
  /\ issuedCalls > reportData

(***************************************************************************)
(* The attendance rate.  apiUtils.calculateAttendanceRate works on         *)
(* JavaScript Numbers, IEEE 754 binary64 values: a Number is modelled by    *)
(* the bits of its significand, most significant first, and the number of  *)
(* those bits that follow the binary point.  Every arithmetic result is     *)
(* rounded to 53 significant bits, ties to even.                           *)
(***************************************************************************)
MaxCount == 40
\* significant bits of a binary64 value
Precision == 53

Number(bits, frac) == [bits |-> bits, frac |-> frac]

RECURSIVE BitsValue(_)
\* the integer a short bit sequence denotes
BitsValue(b) ==
  IF b = <<>> THEN 0
  ELSE 2 * BitsValue(SubSeq(b, 1, Len(b) - 1)) + b[Len(b)]

RECURSIVE IntBits(_)
\* the bits of a non-negative integer, without leading zeros
IntBits(n) == IF n = 0 THEN <<>> ELSE Append(IntBits(n \div 2), n % 2)

\* n zero bits, none when n is not positive
Zeros(n) == [i \in 1 .. (IF n > 0 THEN n ELSE 0) |-> 0]

\* a bit sequence without its leading zeros
StripZeros(b) ==
  LET ones == {i \in 1 .. Len(b) : b[i] = 1}
  IN IF ones = {} THEN <<>>
     ELSE SubSeq(b, CHOOSE i \in ones : \A j \in ones : i <= j, Len(b))

\* a significand plus one unit in its last place; all ones become a one
\* followed by zeros, one bit longer
Increment(b) ==
  LET zeros == {i \in 1 .. Len(b) : b[i] = 0}
  IN IF zeros = {} THEN <<1>> \o Zeros(Len(b))
     ELSE LET last == CHOOSE i \in zeros : \A j \in zeros : j <= i
          IN [i \in 1 .. Len(b) |->
                IF i < last THEN b[i] ELSE IF i = last THEN 1 ELSE 0]

\* rounding to nearest, ties to even: x cut to Precision significant bits,
\* where sticky tells that the exact value lies above x
RoundToPrecision(x, sticky) ==
  LET significand == StripZeros(x.bits)
      drop == Len(significand) - Precision
  IN IF drop <= 0 THEN Number(significand, x.frac)
     ELSE LET kept == SubSeq(significand, 1, Precision)
              guard == significand[Precision + 1]
              rest == \/ sticky
                      \/ \E i \in Precision + 2 .. Len(significand) :
                            significand[i] = 1
              up == guard = 1 /\ (rest \/ kept[Precision] = 1)
          IN Number(IF up THEN Increment(kept) ELSE kept, x.frac - drop)

\* long arithmetic works on digits of DigitBits bits
DigitBits == 8
DigitBase == 2 ^ DigitBits
\* digits of a quotient computed after the binary point: more bits than the
\* precision, the guard bit and the leading zeros of any quotient of counts
FractionDigits == 8

\* the bits of a sequence of digits
BitsOf(digits) ==
  [i \in 1 .. DigitBits * Len(digits) |->
     (digits[(i - 1) \div DigitBits + 1]
        \div 2 ^ (DigitBits - 1 - ((i - 1) % DigitBits))) % 2]

\* the digits of a bit sequence, padded in front to whole digits
DigitsOf(b) ==
  LET count == (Len(b) + DigitBits - 1) \div DigitBits
      padded == Zeros(DigitBits * count - Len(b)) \o b
  IN [j \in 1 .. count |->
        BitsValue(SubSeq(padded, DigitBits * (j - 1) + 1, DigitBits * j))]

RECURSIVE LongDivision(_, _, _)
\* long division of remainder r by d: the next k digits of the quotient,
\* followed by the remainder left
LongDivision(r, d, k) ==
  IF k = 0 THEN <<r>>
  ELSE <<(r * DigitBase) \div d>>
         \o LongDivision((r * DigitBase) % d, d, k - 1)

\* the Number n / d for integers n >= 0 and d > 0
Quotient(n, d) ==
  LET division == LongDivision(n % d, d, FractionDigits)
      digits == SubSeq(division, 1, FractionDigits)
  IN RoundToPrecision(
       Number(IntBits(n \div d) \o BitsOf(digits),
              DigitBits * FractionDigits),
       division[FractionDigits + 1] # 0)

RECURSIVE LongProduct(_, _, _)
\* long multiplication of a sequence of digits by m, from the last digit
LongProduct(digits, m, carry) ==
  IF digits = <<>> THEN <<carry>>
  ELSE LET last == digits[Len(digits)] * m + carry
       IN Append(LongProduct(SubSeq(digits, 1, Len(digits) - 1), m,
                             last \div DigitBase),
                 last % DigitBase)

\* the Number x * 100
TimesHundred(x) ==
  RoundToPrecision(
    Number(BitsOf(LongProduct(DigitsOf(x.bits), 100, 0)), x.frac), FALSE)

\* Math.floor of a non-negative Number: the integer part
MathFloor(x) ==
  LET padded == Zeros(x.frac - Len(x.bits) + 1) \o x.bits
  IN BitsValue(SubSeq(padded, 1, Len(padded) - x.frac))

\* a rounding that drops the part after the binary point
MathRoundDown(x) == MathFloor(x)

\* Math.round of a non-negative Number: the integer part, plus one when the
\* first bit after the binary point is set
MathRound(x) ==
  LET padded == Zeros(x.frac - Len(x.bits) + 1) \o x.bits
      whole == Len(padded) - x.frac
  IN BitsValue(SubSeq(padded, 1, whole))
       + (IF x.frac > 0 THEN padded[whole + 1] ELSE 0)

\* apiUtils.calculateAttendanceRate
calculateAttendanceRate(present, total) ==
  IF total = 0 THEN 0
  ELSE MathRound(TimesHundred(Quotient(present, total)))

\* getAttendanceStats
getAttendanceStats(records) ==
  [present |-> records.Present, absent |-> records.Absent,
   late |-> records.Late,
   total |-> records.Present + records.Absent + records.Late]

\* the records of a day, counted by status
RecordCounts ==
  {c \in [Present : 0 .. MaxCount, Absent : 0 .. MaxCount,
          Late : 0 .. MaxCount] :
     c.Present + c.Absent + c.Late <= MaxCount}

\* the rate of today's records is computed
rateCalculated ==
  /\ ~ attendance_rate.computed
  /\ LET stats == getAttendanceStats(todayRecords)
     IN attendance_rate' =
          [computed |-> TRUE,
           value |-> calculateAttendanceRate(stats.present + stats.late,
                                             stats.total)]
  /\ UNCHANGED todayRecords
  /\ UNCHANGED outsideRate

InitRate ==
  /\ outsideRateInit
  /\ todayRecords \in RecordCounts
  /\ attendance_rate = NoRate

NextRate == rateCalculated

SpecRate == InitRate /\ [][NextRate]_vars

\* round(n / d) for integers n >= 0 and d > 0, halves rounded up
Rounded(n, d) == (2 * n + d) \div (2 * d)

\* C20: once computed, the attendance rate is round(100 * (present + late) /
\* total); it is 0 when total is 0, and an integer in 0..100 whenever
\* present + late <= total.
C20_RateIsRoundedPercentage ==
  attendance_rate.computed =>
    LET stats == getAttendanceStats(todayRecords)
        counted == stats.present + stats.late
    IN /\ stats.total = 0 => attendance_rate.value = 0
       /\ stats.total > 0 =>
             attendance_rate.value = Rounded(100 * counted, stats.total)
       /\ counted <= stats.total => attendance_rate.value \in 0 .. 100

(***************************************************************************)
(* ReportAggregator (specification 4.3): the three report shapes over an    *)
(* immutable slice of AttendanceRecords and the Employee directory.  The   *)
(* report endpoints are not part of the source tree; the Reports view only *)
(* dispatches to them (reportsAPI) and renders what they return.           *)
(***************************************************************************)
\* directory.listActive(): the department of each employee
Directory ==
  [e \in Employees |-> IF e = "E1" THEN "Engineering" ELSE "Sales"]
DirectoryDepartments == {Directory[e] : e \in Employees}
\* the days a record of the slice can be dated
ReportDays == ReportDates \ {0}

\* the slices: at most one record per (employee_id, date)
Slices ==
  {{[employee_id |-> k[1], date |-> k[2], status |-> marks[k]] :
       k \in {j \in DOMAIN marks : marks[j] # "none"}} :
     marks \in [Employees \X ReportDays -> FormStatuses \cup {"none"}]}

\* store.queryRange(from, to): the records dated in [from, to]
queryRange(rs, from, to) == {r \in rs : from <= r.date /\ r.date <= to}

Count(rs, e, status) ==
  Cardinality({r \in rs : r.employee_id = e /\ r.status = status})

\* the shared aggregation primitive: running counters by employee
groupByEmployee(rs) ==
  [e \in Employees |->
     [present |-> Count(rs, e, "Present"),
      absent |-> Count(rs, e, "Absent"),
      late |-> Count(rs, e, "Late")]]

RECURSIVE SumOver(_, _, _)
\* the sum of counter c of the groups g over the employees es
SumOver(g, es, c) ==
  IF es = {} THEN 0
  ELSE LET e == CHOOSE x \in es : TRUE
       IN g[e][c] + SumOver(g, es \ {e}, c)

\* Attendance Summary over [from, to], optionally for one department
AttendanceSummary(rs, from, to, department) ==
  LET filtered ==
        {r \in queryRange(rs, from, to) :
           department = "" \/ Directory[r.employee_id] = department}
      groups == groupByEmployee(filtered)
  IN [present_count |-> SumOver(groups, Employees, "present"),
      absent_count |-> SumOver(groups, Employees, "absent"),
      late_count |-> SumOver(groups, Employees, "late"),
      employee_breakdown |-> groups]

\* Employee Performance that counts every record of the employee, whatever
\* its date
EmployeePerformanceAllDays(rs, e, from, to) ==
  LET own == groupByEmployee({r \in rs : r.employee_id = e})[e]
  IN [total_days |-> own.present + own.absent + own.late,
      present_days |-> own.present,
      absent_days |-> own.absent,
      late_days |-> own.late]

\* Employee Performance of employee e over [from, to]
EmployeePerformance(rs, e, from, to) ==
  LET own == groupByEmployee(
               {r \in queryRange(rs, from, to) : r.employee_id = e})[e]
  IN [total_days |-> own.present + own.absent + own.late,
      present_days |-> own.present,
      absent_days |-> own.absent,
      late_days |-> own.late]

\* Department Report of one department over [from, to]
DepartmentReport(rs, department, from, to) ==
  LET members == {e \in Employees : Directory[e] = department}
      groups == groupByEmployee(
                  {r \in queryRange(rs, from, to) :
                     r.employee_id \in members})
  IN [present_count |-> SumOver(groups, members, "present"),
      absent_count |-> SumOver(groups, members, "absent"),
      employee_breakdown |-> [e \in members |-> groups[e]]]

\* the three report shapes are generated from the slice for one date range
generateShapes(from, to) ==
  /\ reportShapes = {}
  /\ from <= to
  /\ reportShapes' =
       {[dateFrom |-> from, dateTo |-> to,
         summary |-> AttendanceSummary(slice, from, to, ""),
         performance |->
           [e \in Employees |-> EmployeePerformance(slice, e, from, to)],
         department |->
           [d \in DirectoryDepartments |->
              DepartmentReport(slice, d, from, to)]]}
  /\ UNCHANGED slice
  /\ UNCHANGED outsideAggregate

InitAggregate ==
  /\ outsideAggregateInit
  /\ slice \in Slices
  /\ reportShapes = {}

NextAggregate == \E from, to \in ReportDays : generateShapes(from, to)

SpecAggregate == InitAggregate /\ [][NextAggregate]_vars

\* the sum of the present days Employee Performance reports one by one
RECURSIVE PresentDays(_, _)
PresentDays(performance, es) ==
  IF es = {} THEN 0
  ELSE LET e == CHOOSE x \in es : TRUE
       IN performance[e].present_days + PresentDays(performance, es \ {e})

\* C21: for one date range and one slice, the per-employee present counts of
\* the Attendance Summary add up to the present days Employee Performance
\* reports for the same employees one by one, and the Summary, Employee
\* Performance and Department shapes give every employee the same
\* present, absent and late counts.
C21_ShapesAgree ==
  \A s \in reportShapes :
     /\ SumOver(s.summary.employee_breakdown, Employees, "present")
          = PresentDays(s.performance, Employees)
     /\ \A e \in Employees :
          LET inSummary == s.summary.employee_breakdown[e]
              inDepartment == s.department[Directory[e]].employee_breakdown[e]
          IN /\ s.performance[e].present_days = inSummary.present
             /\ s.performance[e].absent_days = inSummary.absent
             /\ s.performance[e].late_days = inSummary.late
             /\ inDepartment = inSummary

\* reports over one day in which both employees are present, generated from
\* a slice that also holds a present record of another day
C21_TwoPresentInRange ==
  \E s \in reportShapes :
     /\ s.dateFrom = s.dateTo
     /\ s.summary.present_count = 2
     /\ \E r \in slice : r.date # s.dateFrom /\ r.status = "Present"

(***************************************************************************)
(* Duration labels: formatDuration of the attendance view and              *)
(* apiUtils.formatWorkingHours.                                            *)
(***************************************************************************)
MaxMinutes == 600

\* a template literal `${h}h ${m}m`
Label(h, m) == ToString(h) \o "h " \o ToString(m) \o "m"

\* formatDuration: its argument is <<>> (undefined or null) or <<minutes>>
formatDuration(minutes) ==
  IF minutes = <<>> \/ minutes[1] = 0 \/ minutes[1] <= 0 THEN "0h 0m"
  ELSE Label(MathFloor(Quotient(minutes[1], 60)), minutes[1] % 60)

\* the Number x * 60
TimesSixty(x) ==
  RoundToPrecision(
    Number(BitsOf(LongProduct(DigitsOf(x.bits), 60, 0)), x.frac), FALSE)

\* the bits of a non-negative Number after the binary point
FractionBits(x) ==
  LET padded == Zeros(x.frac - Len(x.bits) + 1) \o x.bits
  IN SubSeq(padded, Len(padded) - x.frac + 1, Len(padded))

\* a signed Number: the working hours of so many minutes, minutes / 60
Hours(minutes) ==
  [negative |-> minutes < 0,
   magnitude |-> Quotient(IF minutes < 0 THEN 0 - minutes ELSE minutes, 60)]

\* Math.floor(hours) of a signed Number
FloorOfHours(hours) ==
  LET below == MathFloor(hours.magnitude)
      whole == \A i \in DOMAIN FractionBits(hours.magnitude) :
                  FractionBits(hours.magnitude)[i] = 0
  IN IF ~ hours.negative THEN below
     ELSE IF whole THEN 0 - below ELSE 0 - (below + 1)

\* hours - Math.floor(hours): a Number in [0, 1), computed without rounding
\* error
AboveFloor(hours) ==
  LET part == FractionBits(hours.magnitude)
      whole == \A i \in DOMAIN part : part[i] = 0
  IN IF ~ hours.negative \/ whole
     THEN Number(part, hours.magnitude.frac)
     ELSE Number(Increment([i \in DOMAIN part |-> 1 - part[i]]),
                 hours.magnitude.frac)

\* apiUtils.formatWorkingHours: its argument is <<>> or <<hours>>
formatWorkingHours(hours) ==
  IF hours = <<>> \/ hours[1].magnitude.bits = <<>> THEN "0h 0m"
  ELSE Label(FloorOfHours(hours[1]),
             MathRound(TimesSixty(AboveFloor(hours[1]))))

Returned(by, text) == [by |-> by, threw |-> FALSE, text |-> text]

\* the attendance view labels the duration
formatDurationCalled ==
  /\ label = NoLabel
  /\ label' = Returned("formatDuration", formatDuration(duration))
  /\ UNCHANGED duration
  /\ UNCHANGED outsideLabel

\* the working hours of the duration are labelled
formatWorkingHoursCalled ==
  /\ label = NoLabel
  /\ label' = Returned("formatWorkingHours",
                       formatWorkingHours(
                         IF duration = <<>> THEN <<>>
                         ELSE <<Hours(duration[1])>>))
  /\ UNCHANGED duration
  /\ UNCHANGED outsideLabel

Durations == {<<>>} \cup {<<m>> : m \in 0 - MaxMinutes .. MaxMinutes}

InitLabel ==
  /\ outsideLabelInit
  /\ duration \in Durations
  /\ label = NoLabel

NextLabel == formatDurationCalled \/ formatWorkingHoursCalled

SpecLabel == InitLabel /\ [][NextLabel]_vars

\* C22: a zero or missing duration is labelled "0h 0m" without failing; a
\* negative duration makes the formatter fail (throw); a positive one does
\* not.
C22_ThrowsOnNegativeOnly ==
  label.by # "" =>
    /\ (duration = <<>> \/ duration = <<0>>)
         => (~ label.threw /\ label.text = "0h 0m")
    /\ (duration # <<>> /\ duration[1] < 0) => label.threw
    /\ (duration # <<>> /\ duration[1] > 0) => ~ label.threw

\* C23: a positive whole number m of minutes is labelled "{H}h {M}m" with
\* H = m div 60 and M = m mod 60, by formatDuration and, given m / 60 hours,
\* by formatWorkingHours; 570 minutes are labelled "9h 30m".
C23_LabelIsHoursAndMinutes ==
  (label.by # "" /\ duration # <<>> /\ duration[1] > 0) =>
    LET m == duration[1]
    IN /\ ~ label.threw
       /\ label.text = Label(m \div 60, m % 60)
       /\ m = 570 => label.text = "9h 30m"

\* the working hours of a 9h30m span have been labelled "9h 30m"
C23_NineAndAHalfHours ==
  /\ duration = <<570>>
  /\ label = Returned("formatWorkingHours", "9h 30m")


(***************************************************************************)
(* The timer pair of the Reports view under every control that restarts    *)
(* it: the checkbox, the interval select, the report-type buttons and the  *)
(* refreshes themselves.                                                   *)
(***************************************************************************)
NextTimers ==
  \/ \E type \in {"attendance-summary", "department"} : setReportType(type)
  \/ manualGenerate
  \/ toggleAutoRefresh
  \/ \E seconds \in IntervalOptions : selectInterval(seconds)
  \/ \E t \in refreshTimers : refreshTick(t)
  \/ \E c \in calls : \E o \in Outcomes(c) : reportDelivered(c, o)

SpecTimers == Init /\ [][NextTimers]_vars

(***************************************************************************)
(* The countdown of the Reports view, second by second.                    *)
(***************************************************************************)
NextCountdown ==
  \/ setReportType("attendance-summary")
  \/ manualGenerate
  \/ toggleAutoRefresh
  \/ \E seconds \in IntervalOptions : selectInterval(seconds)
  \/ \E t \in countdownTimers : countdownTick(t)
  \/ \E c \in calls : \E o \in Outcomes(c) : reportDelivered(c, o)

SpecCountdown == Init /\ [][NextCountdown]_vars

\* some timer exists
TimersExist == refreshTimers # {} \/ countdownTimers # {}

\* the timers run only under their three conditions and with the countdown
\* within the interval; without timers the countdown shows 0
CountdownInRange ==
  /\ interval \in IntervalOptions
  /\ TimersExist =>
       /\ enabled /\ reportData # 0 /\ reportType # ""
       /\ refreshCountdown \in 1 .. interval
  /\ ~ TimersExist => refreshCountdown = 0

\* the step is a second of a running countdown
Second == countdownTimers' = countdownTimers /\ refreshCountdown' # refreshCountdown

\* C25: while the Reports view is mounted, timers exist only while auto-refresh
\* is enabled and a report type and report data exist; while they exist the
\* countdown is in 1..interval with interval one of 30, 60, 120, 300, each
\* second takes it down by one and from 1 back to the interval; without timers
\* the countdown is 0
C25_CountdownFollowsInterval ==
  [][/\ mounted => CountdownInRange
     /\ mounted' => CountdownInRange'
     /\ mounted /\ Second =>
          refreshCountdown' = IF refreshCountdown = 1 THEN interval
                              ELSE refreshCountdown - 1]_vars

\* the countdown of a 120-second interval has come down to its last second
C25_LastSecond ==
  /\ mounted
  /\ TimersExist
  /\ interval = 120
  /\ refreshCountdown = 1


\* the step starts a timer of the set timers
Starts(timers) == timers' \ timers # {}

\* C24: while the Reports view is mounted at most one refresh timer and at
\* most one countdown timer are active, and a step that starts a timer
\* leaves none of the timers that were active before it
C24_OneTimerPair ==
  [][mounted' =>
       /\ Cardinality(refreshTimers') <= 1
       /\ Cardinality(countdownTimers') <= 1
       /\ Starts(refreshTimers) => refreshTimers' \cap refreshTimers = {}
       /\ Starts(countdownTimers) =>
            countdownTimers' \cap countdownTimers = {}]_vars

\* a pair is running after the interval and the report type were changed
C24_PairAfterRestarts ==
  /\ mounted
  /\ interval = 300
  /\ reportType = "department"
  /\ Cardinality(refreshTimers) = 1
  /\ Cardinality(countdownTimers) = 1
  /\ issuedCalls >= 2


\* C26: every scheduled refresh requests the report with the report type and
\* the filters the view holds at the moment its timer fires
C26_RefreshUsesCurrentFilters ==
  [][\A c \in calls' \ calls :
       c.silent => c.reportType = reportType /\ c.filters = filters]_vars


(***************************************************************************)
(* RealTimeUpdates: polling by key.  A timer is the record of its id and   *)
(* the key and callback it was started for; setInterval hands out the ids  *)
(* 1, 2, ... so that every id is truthy.                                   *)
(***************************************************************************)
MaxPollTimers == 5

PollKeys == {"health", "attendance"}
PollCallbacks == {"checkApiHealth", "fetchData"}

\* Map.set and Map.delete
MapSet(map, key, value) ==
  [k \in DOMAIN map \cup {key} |-> IF k = key THEN value ELSE map[k]]
MapDelete(map, key) == [k \in DOMAIN map \ {key} |-> map[k]]

\* clearInterval(id)
clearInterval(timers, id) == {t \in timers : t.id # id}

\* the timers left by a stopPolling that clears nothing
leaveRunning(timers, key) == timers

\* the timers left by stopPolling(key)
pollTimersAfterStop(timers, key) ==
  IF key \in DOMAIN intervals THEN clearInterval(timers, intervals[key])
  ELSE timers

\* RealTimeUpdates.stopPolling as a part of a step
StopPolling(key) ==
  /\ pollTimers' = pollTimersAfterStop(pollTimers, key)
  /\ intervals' = MapDelete(intervals, key)
  /\ callbacks' =
       IF key \in DOMAIN intervals THEN MapDelete(callbacks, key)
       ELSE callbacks
  /\ UNCHANGED timerCount

\* RealTimeUpdates.startPolling as a part of a step, up to the initial call
\* of the callback
StartPolling(key, callback) ==
  /\ timerCount < MaxPollTimers
  /\ timerCount' = timerCount + 1
  /\ callbacks' =
       MapSet(IF key \in DOMAIN intervals THEN MapDelete(callbacks, key)
              ELSE callbacks, key, callback)
  /\ pollTimers' = pollTimersAfterStop(pollTimers, key) \cup
       {[id |-> timerCount + 1, key |-> key, callback |-> callback]}
  /\ intervals' = MapSet(intervals, key, timerCount + 1)

\* RealTimeUpdates.stopAllPolling as a part of a step
StopAllPolling ==
  /\ pollTimers' = {t \in pollTimers :
                      \A k \in DOMAIN intervals : t.id # intervals[k]}
  /\ intervals' = EmptyMap
  /\ callbacks' = EmptyMap
  /\ UNCHANGED timerCount

\* the three methods called on an instance of their own
startPolling(key, callback) ==
  /\ StartPolling(key, callback)
  /\ UNCHANGED shellVars
  /\ UNCHANGED outsideApp

stopPolling(key) ==
  /\ StopPolling(key)
  /\ UNCHANGED shellVars
  /\ UNCHANGED outsideApp

stopAllPolling ==
  /\ StopAllPolling
  /\ UNCHANGED shellVars
  /\ UNCHANGED outsideApp

NextPolling ==
  \/ \E key \in PollKeys : \E callback \in PollCallbacks :
       startPolling(key, callback)
  \/ \E key \in PollKeys : stopPolling(key)
  \/ stopAllPolling

SpecPolling == Init /\ [][NextPolling]_vars

\* the timers running for key
TimersOf(key) == {t \in pollTimers : t.key = key}

\* the maps and the running timers agree
PollingConsistent ==
  /\ DOMAIN intervals = DOMAIN callbacks
  /\ \A key \in PollKeys : Cardinality(TimersOf(key)) <= 1
  /\ pollTimers =
       {[id |-> intervals[k], key |-> k, callback |-> callbacks[k]] :
          k \in DOMAIN intervals}

\* C27: after any sequence of startPolling, stopPolling and stopAllPolling
\* each key has at most one running interval, the two maps have the same
\* keys, the running timers are those of the intervals map (so startPolling
\* on a polling key replaces its timer), and when the maps have been
\* emptied no interval runs
C27_OneIntervalPerKey ==
  [][/\ PollingConsistent
     /\ PollingConsistent'
     /\ intervals' = EmptyMap => pollTimers' = {}]_vars

\* a key polls under its second timer while the other key polls too
C27_TimerReplaced ==
  /\ DOMAIN intervals = PollKeys
  /\ intervals["health"] = 3
  /\ callbacks["health"] = "fetchData"
  /\ Cardinality(pollTimers) = 2


(***************************************************************************)
(* App: initializeApp, the health polling and the notification list.  A    *)
(* notification is the record of its id (Date.now() when it was made) and  *)
(* of seq, its rank among the notifications made, which stands for the     *)
(* identity of the object.  State updates of an unmounted App are dropped. *)
(***************************************************************************)
MaxNotifications == 4
MaxClock == 2
MaxChecks == 2

\* setNotifications(prev => [notification, ...prev.slice(0, 4)])
Prepended(list, n) ==
  <<n>> \o SubSeq(list, 1, IF Len(list) < 4 THEN Len(list) ELSE 4)

\* prev.filter(n => n.id !== id)
RECURSIVE FilterOut(_, _)
FilterOut(list, id) ==
  IF list = <<>> THEN <<>>
  ELSE (IF Head(list).id # id THEN <<Head(list)>> ELSE <<>>)
         \o FilterOut(Tail(list), id)

\* addNotification as a part of a step
AddNotification ==
  /\ added < MaxNotifications
  /\ added' = added + 1
  /\ notifications' =
       IF appMounted
       THEN Prepended(notifications, [id |-> clockMs, seq |-> added + 1])
       ELSE notifications
  /\ timeouts' = Append(timeouts, clockMs)

\* the status and notification a finished health check leaves
HealthChecked(outcome) ==
  /\ apiStatus' = IF ~ appMounted THEN apiStatus
                  ELSE IF outcome = "ok" THEN "connected" ELSE "disconnected"
  /\ IF outcome = "ok" THEN UNCHANGED <<notifications, timeouts, added>>
     ELSE AddNotification

HealthOutcomes == {"ok", "failed"}

\* the health check initializeApp awaits completes; getSystemInfo is called
initHealthChecked(outcome) ==
  /\ initStep = "health"
  /\ initStep' = "info"
  /\ HealthChecked(outcome)
  /\ UNCHANGED <<pollingVars, appMounted, systemInfo, healthChecks, clockMs>>
  /\ UNCHANGED outsideApp

\* getSystemInfo completes; startRealTimeUpdates starts the health polling,
\* whose initial call of checkApiHealth goes out
systemInfoReceived(outcome) ==
  /\ initStep = "info"
  /\ initStep' = "done"
  /\ systemInfo' = IF appMounted /\ outcome = "ok" THEN "info" ELSE systemInfo
  /\ StartPolling("health", "checkApiHealth")
  /\ healthChecks' = healthChecks + 1
  /\ apiStatus' = IF appMounted THEN "checking" ELSE apiStatus
  /\ UNCHANGED <<appMounted, notifications, timeouts, clockMs, added>>
  /\ UNCHANGED outsideApp

\* the polling timer t fires: checkApiHealth goes out
pollTick(t) ==
  /\ t \in pollTimers
  /\ healthChecks < MaxChecks
  /\ healthChecks' = healthChecks + 1
  /\ apiStatus' = IF appMounted THEN "checking" ELSE apiStatus
  /\ UNCHANGED <<pollingVars, appMounted, initStep, systemInfo, notifications,
                 timeouts, clockMs, added>>
  /\ UNCHANGED outsideApp

\* a polled health check completes
polledHealthChecked(outcome) ==
  /\ healthChecks > 0
  /\ healthChecks' = healthChecks - 1
  /\ HealthChecked(outcome)
  /\ UNCHANGED <<pollingVars, appMounted, initStep, systemInfo, clockMs>>
  /\ UNCHANGED outsideApp

\* a view calls onNotification
addNotification ==
  /\ appMounted
  /\ AddNotification
  /\ UNCHANGED <<pollingVars, appMounted, initStep, apiStatus, systemInfo,
                 healthChecks, clockMs>>
  /\ UNCHANGED outsideApp

\* the close button of the i-th notification shown
removeNotification(i) ==
  /\ appMounted
  /\ i \in 1 .. Len(notifications)
  /\ notifications' = FilterOut(notifications, notifications[i].id)
  /\ UNCHANGED <<pollingVars, appMounted, initStep, apiStatus, systemInfo,
                 healthChecks, timeouts, clockMs, added>>
  /\ UNCHANGED outsideApp

\* the oldest auto-remove timeout fires
timeoutFires ==
  /\ timeouts # <<>>
  /\ timeouts' = Tail(timeouts)
  /\ notifications' = IF appMounted THEN FilterOut(notifications, Head(timeouts))
                      ELSE notifications
  /\ UNCHANGED <<pollingVars, appMounted, initStep, apiStatus, systemInfo,
                 healthChecks, clockMs, added>>
  /\ UNCHANGED outsideApp

\* a millisecond passes
millisecondPasses ==
  /\ clockMs < MaxClock
  /\ clockMs' = clockMs + 1
  /\ UNCHANGED <<pollingVars, appMounted, initStep, apiStatus, systemInfo,
                 healthChecks, notifications, timeouts, added>>
  /\ UNCHANGED outsideApp

\* App is discarded: the cleanup of the mount effect
appUnmounts ==
  /\ appMounted
  /\ appMounted' = FALSE
  /\ StopAllPolling
  /\ UNCHANGED <<initStep, apiStatus, systemInfo, healthChecks, notifications,
                 timeouts, clockMs, added>>
  /\ UNCHANGED outsideApp

NextApp ==
  \/ \E outcome \in HealthOutcomes : initHealthChecked(outcome)
  \/ \E outcome \in HealthOutcomes : systemInfoReceived(outcome)
  \/ \E t \in pollTimers : pollTick(t)
  \/ \E outcome \in HealthOutcomes : polledHealthChecked(outcome)
  \/ addNotification
  \/ \E i \in 1 .. Len(notifications) : removeNotification(i)
  \/ timeoutFires
  \/ millisecondPasses
  \/ appUnmounts

SpecApp == Init /\ [][NextApp]_vars

\* C28: once App is unmounted no polling timer runs
C28_NoPollingAfterUnmount == ~ appMounted => pollTimers = {}


\* the timeouts set by addNotification fire in the end
SpecAppFair == SpecApp /\ WF_vars(timeoutFires)

\* the notification made as the seq-th is in the list
Listed(seq) == \E i \in 1 .. Len(notifications) : notifications[i].seq = seq

\* later notifications stand before earlier ones
NewestFirst ==
  \A i, j \in 1 .. Len(notifications) :
    i < j => notifications[i].seq > notifications[j].seq

\* C30: the notification list holds at most 5 entries, newest first; a step
\* that removes from the list removes exactly one notification; and every
\* notification listed leaves the list in the end
C30_NotificationsBoundedAndRemoved ==
  /\ [][/\ Len(notifications') <= 5
        /\ NewestFirst'
        /\ Len(notifications') < Len(notifications) =>
             Len(notifications') = Len(notifications) - 1]_vars
  /\ \A seq \in 1 .. MaxNotifications :
       (appMounted /\ Listed(seq)) ~> (~ appMounted \/ ~ Listed(seq))


(***************************************************************************)
(* AttendanceManagement: the list under the date filter.  A fetchData call *)
(* carries the date filter of the render that made it; the service answers *)
(* it from a sheet of records that does not change meanwhile.              *)
(***************************************************************************)
MaxFetches == 4

\* values of the date input: 0 is the empty input, 1 and 2 are two days
FilterDates == {0, 1, 2}

\* the records the service holds
Sheet ==
  {[employee_id |-> "E1", date |-> 1], [employee_id |-> "E2", date |-> 1],
   [employee_id |-> "E1", date |-> 2]}

\* the attendance list the service answers a request under date filter d with
listAttendance(d) == IF d = 0 THEN Sheet ELSE {r \in Sheet : r.date = d}

\* fetchData of a render whose date filter is d, up to its await
FetchData(d) ==
  /\ fetched < MaxFetches
  /\ fetched' = fetched + 1
  /\ fetches' = fetches \cup {[id |-> fetched + 1, dateFilter |-> d]}

\* the date input or the Clear button: the effect on [dateFilter] runs again,
\* its cleanup clears the timer, fetchData is called and a timer started
changeDateFilter(d) ==
  /\ d # dateFilter
  /\ dateFilter' = d
  /\ FetchData(d)
  /\ fetchTimers' = {[dateFilter |-> d]}
  /\ UNCHANGED <<attendance, listError>>
  /\ UNCHANGED outsideListing

\* the 30-second timer t fires
fetchTick(t) ==
  /\ t \in fetchTimers
  /\ FetchData(t.dateFilter)
  /\ UNCHANGED <<dateFilter, attendance, listError, fetchTimers>>
  /\ UNCHANGED outsideListing

\* the requests of the fetchData call f are answered
fetchCompleted(f, outcome) ==
  /\ f \in fetches
  /\ fetches' = fetches \ {f}
  /\ IF outcome = "ok"
     THEN /\ attendance' = listAttendance(f.dateFilter)
          /\ listError' = ""
     ELSE /\ listError' = "Failed to fetch data"
          /\ UNCHANGED attendance
  /\ UNCHANGED <<dateFilter, fetched, fetchTimers>>
  /\ UNCHANGED outsideListing

NextListing ==
  \/ \E d \in FilterDates : changeDateFilter(d)
  \/ \E t \in fetchTimers : fetchTick(t)
  \/ \E f \in fetches : \E outcome \in {"ok", "failed"} :
       fetchCompleted(f, outcome)

SpecListing == Init /\ [][NextListing]_vars

\* C29: when no fetch is in flight and the last one to complete succeeded, the
\* list shown is the service's answer for the current date filter
C29_ListMatchesDateFilter ==
  (fetches = {} /\ listError = "") => attendance = listAttendance(dateFilter)

====
